---- MODULE Spec2Model ----
(***************************************************************************)
(* Model of cheroot/ssl/tlspooladapter.py: the TLSPoolAdapter that hands   *)
(* each accepted connection to the TLS Pool daemon (the "authority") and   *)
(* returns the plaintext socket with the WSGI environment.                 *)
(*                                                                         *)
(* Specifications:                                                         *)
(*   SpecCtor  the constructor call TLSPoolAdapter(server_name, *legacy),  *)
(*             frame by frame;                                             *)
(*   Spec      bind / wrap / get_environ on an adapter instance whose      *)
(*             server_name attribute is set, with MaxConn accepted         *)
(*             connections wrapped concurrently by worker threads.         *)
(*   FairSpec  Spec with weak fairness on the adapter's own steps only.    *)
(* The tlspool library and daemon are not part of the repository: their    *)
(* answers are nondeterministic choices.  Line 103-108 are indented with   *)
(* tabs (Python 2 reads a tab as 8 columns), so they are the body of wrap. *)
(***************************************************************************)
EXTENDS Integers, Sequences, FiniteSets, TLC

\* ---------------------------------------------------------------- bounds
MaxConn == 2          \* accepted connections wrapped concurrently
MaxLegacyArgs == 3    \* extra positional arguments of a constructor call
RecursionLimit == 12  \* interpreter frames before RecursionError

\* ------------------------------------------------------------ value sets
Conns == 1..MaxConn
ServerNames == {"tlspool.arpa2.lab", "www.arpa2.lab"}
\* identities the authority can report: the local one it used, the remote
\* one it established; "" is the library's blank field (no identity)
LocalIds == ServerNames
RemoteIds == {"client@arpa2.lab", ""}
Unset == "<no attribute>"

ListenSock == <<"listen", 0>>
ExtSock(c) == <<"ext", c>>
IntSock(c) == <<"int", c>>
Socks == {ListenSock} \cup {ExtSock(c) : c \in Conns} \cup {IntSock(c) : c \in Conns}
NotCalled == <<"not called", 0>>
BindFailure == <<"socket.error", 0>>

\* tlspool flag bits (line 103-105), a bitmask modelled as a set of bits
PIOF_STARTTLS_LOCALROLE_SERVER == "PIOF_STARTTLS_LOCALROLE_SERVER"
PIOF_STARTTLS_REMOTEROLE_CLIENT == "PIOF_STARTTLS_REMOTEROLE_CLIENT"
PIOF_STARTTLS_IGNORE_REMOTEID == "PIOF_STARTTLS_IGNORE_REMOTEID"

\* failures a starttls() call can raise
AuthorityFailures == {"HandshakeRejected", "HandshakeTimeout", "ProtocolViolation"}
FailureKinds == AuthorityFailures \cup {"AuthorityUnreachable"}
NoError == "none"

VARIABLES
  server_name,   \* self.server_name of the adapter, or Unset
  ctor_pc,       \* constructor call: "call", "running", "returned", "raised"
  ctor_args,     \* <<server_name, legacy args>> of the constructor call
  ctor_stack,    \* frames of __init__ currently active, innermost last
  pc,            \* pc[c]: where the wrap call of connection c stands
  hdl,           \* hdl[c]: the tlspool.Connection of wrap(c), its tlsdata
  intsock,       \* intsock[c]: what hdl.starttls() returned
  err,           \* err[c]: the exception starttls() raised, or NoError
  requests,      \* requests[c]: handshake requests submitted for c
  opens,         \* control channels opened to the authority
  auth,          \* auth[c]: what the authority established for c
  wrap_ret,      \* wrap_ret[c]: <<>> or the tuple wrap returned
  bind_ret,      \* what the last bind call returned
  environ_ret    \* <<>> or <<sock, mapping>> of the last get_environ call

ctor_vars == <<ctor_pc, ctor_args, ctor_stack>>
conn_vars == <<pc, hdl, intsock, err, requests, opens, auth, wrap_ret>>
vars == <<server_name, ctor_pc, ctor_args, ctor_stack, pc, hdl, intsock, err,
          requests, opens, auth, wrap_ret, bind_ret, environ_ret>>

\* ------------------------------------------------------------- helpers
NoHdl == [extsock |-> <<"none", 0>>, service |-> "", flags |-> {},
          localid |-> "", remoteid |-> ""]
NoGrant == [granted |-> FALSE, localid |-> "", remoteid |-> ""]

\* tlspool.Connection (extsock, service='http', flags=fl): a fresh handle
\* whose tlsdata identities are blank
Connection(extsock, service, flags) ==
  [extsock |-> extsock, service |-> service, flags |-> flags,
   localid |-> "", remoteid |-> ""]

\* fl = SERVER | CLIENT | IGNORE_REMOTEID
fl == {PIOF_STARTTLS_LOCALROLE_SERVER} \cup {PIOF_STARTTLS_REMOTEROLE_CLIENT}
        \cup {PIOF_STARTTLS_IGNORE_REMOTEID}

\* the dictionary wrap builds from the handle after starttls()
wrap_env_fresh(h) ==
  ("wsgi.url_scheme" :> "https") @@ ("HTTPS" :> "on") @@
  ("LOCAL_USER" :> Connection(h.extsock, h.service, h.flags).localid) @@
  ("REMOTE_USER" :> h.remoteid)
wrap_env(h) ==
  ("wsgi.url_scheme" :> "https") @@ ("HTTPS" :> "on") @@
  ("LOCAL_USER" :> h.localid) @@ ("REMOTE_USER" :> h.remoteid)

\* the dictionary get_environ returns
get_environ_bysock(sock) ==
  IF sock[1] = "int"
    THEN ("wsgi.url_scheme" :> "https") @@ ("HTTPS" :> "on")
    ELSE ("wsgi.url_scheme" :> "http") @@ ("HTTPS" :> "off")
get_environ(sock) ==
  ("wsgi.url_scheme" :> "https") @@ ("HTTPS" :> "on")

\* Adapter.bind of the base class: returns the socket it is given
Adapter_bind(sock) == sock

\* ------------------------------------------------- the constructor call
\* The class body binds __init__ twice; the later def statement rebinds
\* the name, so the class attribute is the second definition.
InitDefinitions == <<"__init__(self, server_name)",
                     "__init__(self, server_name, *mooh)">>
BoundInit == InitDefinitions[Len(InitDefinitions)]

LegacyArgs(n) == [i \in 1..n |-> "legacy"]

InitConn ==
  /\ pc = [c \in Conns |-> "accepted"]
  /\ hdl = [c \in Conns |-> NoHdl]
  /\ intsock = [c \in Conns |-> <<"none", 0>>]
  /\ err = [c \in Conns |-> NoError]
  /\ requests = [c \in Conns |-> <<>>]
  /\ opens = 0
  /\ auth = [c \in Conns |-> NoGrant]
  /\ wrap_ret = [c \in Conns |-> <<>>]
  /\ bind_ret = NotCalled
  /\ environ_ret = <<>>

\* TLSPoolAdapter (server_name, *legacy): the object exists, no attribute
\* is set, and the class's __init__ is about to be called with the args.
InitCtor ==
  /\ server_name = Unset
  /\ ctor_pc = "call"
  /\ ctor_args \in {<<s, LegacyArgs(n)>> : s \in ServerNames, n \in 0..MaxLegacyArgs}
  /\ ctor_stack = <<>>
  /\ InitConn

\* type.__call__: invoke the bound __init__ with the caller's arguments
construct ==
  /\ ctor_pc = "call"
  /\ ctor_pc' = "running"
  /\ ctor_stack' = <<[server_name |-> ctor_args[1], mooh |-> ctor_args[2]]>>
  /\ UNCHANGED <<server_name, ctor_args, conn_vars, bind_ret, environ_ret>>

\* the body of the innermost active __init__ frame
init_body ==
  /\ ctor_pc = "running"
  /\ Len(ctor_stack) \in 1..RecursionLimit
  /\ LET frame == ctor_stack[Len(ctor_stack)] IN
       IF BoundInit = InitDefinitions[1]
         THEN \* line 79: self.server_name = server_name, then return
              /\ server_name' = frame.server_name
              /\ ctor_stack' = <<>>
              /\ ctor_pc' = "returned"
         ELSE \* line 91: self.__init__ (server_name) looks __init__ up on
              \* the class again and calls it with no extra arguments
              /\ server_name' = server_name
              /\ ctor_stack' = Append(ctor_stack,
                                 [server_name |-> frame.server_name, mooh |-> <<>>])
              /\ ctor_pc' = "running"
  /\ UNCHANGED <<ctor_args, conn_vars, bind_ret, environ_ret>>

\* the interpreter refuses the frame beyond the recursion limit; no frame
\* has a handler, so the exception leaves the constructor call
init_recursion_error ==
  /\ ctor_pc = "running"
  /\ Len(ctor_stack) > RecursionLimit
  /\ ctor_stack' = <<>>
  /\ ctor_pc' = "raised"
  /\ UNCHANGED <<server_name, ctor_args, conn_vars, bind_ret, environ_ret>>

NextCtor == construct \/ init_body \/ init_recursion_error
SpecCtor == InitCtor /\ [][NextCtor]_vars

\* ------------------------------------------------ serving connections
\* An adapter instance carrying the server_name attribute (the assignment
\* of line 79), no connection wrapped yet.
Init ==
  /\ server_name \in ServerNames
  /\ ctor_pc = "returned"
  /\ ctor_args = <<server_name, <<>>>>
  /\ ctor_stack = <<>>
  /\ InitConn

\* line 103-106: compute the flags and create the handle for extsock
wrap_Connection(c) ==
  /\ pc[c] = "accepted"
  /\ hdl' = [hdl EXCEPT ![c] = Connection(ExtSock(c), "http", fl)]
  /\ pc' = [pc EXCEPT ![c] = "connection"]
  /\ UNCHANGED <<server_name, ctor_vars, intsock, err, requests, opens, auth,
                 wrap_ret, bind_ret, environ_ret>>

\* line 107: hdl.tlsdata.localid = self.server_name
wrap_localid(c) ==
  /\ pc[c] = "connection"
  /\ hdl' = [hdl EXCEPT ![c].localid = server_name]
  /\ pc' = [pc EXCEPT ![c] = "localid"]
  /\ UNCHANGED <<server_name, ctor_vars, intsock, err, requests, opens, auth,
                 wrap_ret, bind_ret, environ_ret>>

\* line 108, the call: the library opens a control channel to the daemon
\* and submits the request, or cannot reach the daemon and raises
wrap_starttls(c) ==
  /\ pc[c] = "localid"
  /\ \/ /\ opens' = opens + 1
        /\ requests' = [requests EXCEPT ![c] =
              Append(@, [extsock |-> hdl[c].extsock, service |-> hdl[c].service,
                         flags |-> hdl[c].flags, localid |-> hdl[c].localid])]
        /\ pc' = [pc EXCEPT ![c] = "waiting"]
        /\ err' = err
     \/ /\ err' = [err EXCEPT ![c] = "AuthorityUnreachable"]
        /\ pc' = [pc EXCEPT ![c] = "failed"]
        /\ UNCHANGED <<opens, requests>>
  /\ UNCHANGED <<server_name, ctor_vars, hdl, intsock, auth, wrap_ret,
                 bind_ret, environ_ret>>

\* line 108, the authority grants: it reports the local identity it used
\* and the remote identity it established (blank when the peer gave none,
\* which it accepts only under PIOF_STARTTLS_IGNORE_REMOTEID); the library
\* stores both in hdl.tlsdata and starttls() returns the plaintext socket
starttls_granted(c) ==
  /\ pc[c] = "waiting"
  /\ \E lid \in LocalIds, rid \in RemoteIds :
       /\ rid # "" \/ PIOF_STARTTLS_IGNORE_REMOTEID \in requests[c][1].flags
       /\ auth' = [auth EXCEPT ![c] =
                     [granted |-> TRUE, localid |-> lid, remoteid |-> rid]]
       /\ hdl' = [hdl EXCEPT ![c].localid = lid, ![c].remoteid = rid]
  /\ intsock' = [intsock EXCEPT ![c] = IntSock(c)]
  /\ pc' = [pc EXCEPT ![c] = "granted"]
  /\ UNCHANGED <<server_name, ctor_vars, err, requests, opens, wrap_ret,
                 bind_ret, environ_ret>>

\* line 108, the authority reports a failure and starttls() raises
starttls_failed(c) ==
  /\ pc[c] = "waiting"
  /\ \E k \in AuthorityFailures : err' = [err EXCEPT ![c] = k]
  /\ pc' = [pc EXCEPT ![c] = "failed"]
  /\ UNCHANGED <<server_name, ctor_vars, hdl, intsock, requests, opens, auth,
                 wrap_ret, bind_ret, environ_ret>>

\* line 109-115: build env from the handle and return (intsock, env)
wrap_return_configured(c) ==
  /\ pc[c] = "granted"
  /\ wrap_ret' = [wrap_ret EXCEPT ![c] =
        <<intsock[c], wrap_env([hdl[c] EXCEPT !.localid = server_name])>>]
  /\ pc' = [pc EXCEPT ![c] = "returned"]
  /\ UNCHANGED <<server_name, ctor_vars, hdl, intsock, err, requests, opens,
                 auth, bind_ret, environ_ret>>
wrap_return_shared(c) ==
  /\ pc[c] = "granted"
  /\ LET last == CHOOSE d \in Conns : pc[d] \in {"granted", "returned"}
                    /\ \A e \in Conns : pc[e] \in {"granted", "returned"} => e <= d
     IN wrap_ret' = [wrap_ret EXCEPT ![c] = <<intsock[c], wrap_env(hdl[last])>>]
  /\ pc' = [pc EXCEPT ![c] = "returned"]
  /\ UNCHANGED <<server_name, ctor_vars, hdl, intsock, err, requests, opens,
                 auth, bind_ret, environ_ret>>
wrap_return(c) ==
  /\ pc[c] = "granted"
  /\ wrap_ret' = [wrap_ret EXCEPT ![c] = <<intsock[c], wrap_env(hdl[c])>>]
  /\ pc' = [pc EXCEPT ![c] = "returned"]
  /\ UNCHANGED <<server_name, ctor_vars, hdl, intsock, err, requests, opens,
                 auth, bind_ret, environ_ret>>

\* line 108 has no try/except: the exception leaves wrap, nothing returned
wrap_raise_fallback(c) ==
  /\ pc[c] = "failed"
  /\ pc' = [pc EXCEPT ![c] = "raised"]
  /\ wrap_ret' = [wrap_ret EXCEPT ![c] = <<ExtSock(c), get_environ(ExtSock(c))>>]
  /\ UNCHANGED <<server_name, ctor_vars, hdl, intsock, err, requests, opens,
                 auth, bind_ret, environ_ret>>
wrap_raise_retry(c) ==
  /\ pc[c] = "failed"
  /\ IF Len(requests[c]) < 2
       THEN pc' = [pc EXCEPT ![c] = "localid"]
       ELSE pc' = [pc EXCEPT ![c] = "raised"]
  /\ UNCHANGED <<server_name, ctor_vars, hdl, intsock, err, requests, opens,
                 auth, wrap_ret, bind_ret, environ_ret>>
wrap_raise(c) ==
  /\ pc[c] = "failed"
  /\ pc' = [pc EXCEPT ![c] = "raised"]
  /\ UNCHANGED <<server_name, ctor_vars, hdl, intsock, err, requests, opens,
                 auth, wrap_ret, bind_ret, environ_ret>>

\* line 93-97: return super (TLSPoolAdapter,self).bind (sock); a failure
\* of the underlying call propagates
bind_wrapping(sock) ==
  /\ opens <= MaxConn
  /\ opens' = opens + 1
  /\ bind_ret' = IntSock(1)
  /\ UNCHANGED <<server_name, ctor_vars, pc, hdl, intsock, err, requests, auth,
                 wrap_ret, environ_ret>>
bind(sock) ==
  /\ bind_ret' \in {Adapter_bind(sock), BindFailure}
  /\ UNCHANGED <<server_name, ctor_vars, conn_vars, environ_ret>>

\* line 122-128: the call of get_environ, its result observed
call_get_environ(sock) ==
  /\ environ_ret' = <<sock, get_environ(sock)>>
  /\ UNCHANGED <<server_name, ctor_vars, conn_vars, bind_ret>>

Next ==
  \/ \E c \in Conns : wrap_Connection(c)
  \/ \E c \in Conns : wrap_localid(c)
  \/ \E c \in Conns : wrap_starttls(c)
  \/ \E c \in Conns : starttls_granted(c)
  \/ \E c \in Conns : starttls_failed(c)
  \/ \E c \in Conns : wrap_return(c)
  \/ \E c \in Conns : wrap_raise(c)
  \/ bind(ListenSock)
  \/ \E s \in Socks : call_get_environ(s)

Spec == Init /\ [][Next]_vars

\* the worker that owns a connection keeps running its own wrap call; the
\* authority's answer is not the adapter's to schedule
FairSpec ==
  /\ Spec
  /\ \A c \in Conns : WF_vars(wrap_Connection(c))
  /\ \A c \in Conns : WF_vars(wrap_localid(c))
  /\ \A c \in Conns : WF_vars(wrap_starttls(c))
  /\ \A c \in Conns : WF_vars(wrap_return(c))
  /\ \A c \in Conns : WF_vars(wrap_raise(c))

\* ------------------------------------------------------------ properties
\* the connection states of the design, read off the position of wrap
State(c) ==
  CASE pc[c] = "accepted" -> "Accepted"
    [] pc[c] \in {"connection", "localid", "waiting"} -> "Negotiating"
    [] pc[c] \in {"granted", "returned"} -> "Established"
    [] pc[c] \in {"failed", "raised"} -> "Rejected"

Returned(c) == wrap_ret[c] # <<>>
Env(c) == wrap_ret[c][2]

\* C1: wrap returns a handle only from Established, after the authority
\* granted the handshake of that same connection; the handle is the one
\* starttls() gave, never the raw socket; with any failure kind raised,
\* wrap has returned nothing.
C1_HandleOnlyWhenEstablished ==
  \A c \in Conns :
    /\ Returned(c) => /\ State(c) = "Established"
                      /\ auth[c].granted
                      /\ err[c] = NoError
                      /\ wrap_ret[c][1] = intsock[c]
                      /\ wrap_ret[c][1] # ExtSock(c)
    /\ err[c] \in FailureKinds => ~Returned(c)
C1_Witness ==
  \E c, d \in Conns :
    /\ pc[c] = "raised" /\ err[c] = "HandshakeRejected" /\ ~Returned(c)
    /\ pc[d] = "returned" /\ Returned(d)

\* C2: after a successful handshake the returned mapping has the
\* REMOTE_USER key exactly when IgnoreRemoteIdentity was not requested or
\* the peer supplied an identity.
C2_RemoteKeyIffSupplied ==
  \A c \in Conns :
    Returned(c) =>
      (("REMOTE_USER" \in DOMAIN Env(c)) <=>
         (PIOF_STARTTLS_IGNORE_REMOTEID \notin requests[c][1].flags
            \/ auth[c].remoteid # ""))

\* C3: once the constructor call is over it has returned, and the
\* adapter's server_name is the first argument, with or without legacy
\* arguments.
C3_ConstructorYieldsIdentity ==
  ctor_pc \in {"returned", "raised"} =>
    /\ ctor_pc = "returned"
    /\ server_name = ctor_args[1]

C5_Independent ==
  \A c \in Conns :
    /\ Returned(c) => /\ wrap_ret[c][1] = IntSock(c)
                      /\ Env(c)["LOCAL_USER"] = auth[c].localid
                      /\ Env(c)["REMOTE_USER"] = auth[c].remoteid
                      /\ \A d \in Conns \ {c} :
                           Returned(d) => wrap_ret[d][1] # wrap_ret[c][1]
C5_FailureIsolated ==
  \A c \in Conns :
    err'[c] # err[c] =>
      \A d \in Conns \ {c} :
        /\ pc'[d] = pc[d] /\ hdl'[d] = hdl[d] /\ err'[d] = err[d]
        /\ auth'[d] = auth[d] /\ wrap_ret'[d] = wrap_ret[d]
        /\ intsock'[d] = intsock[d] /\ requests'[d] = requests[d]
C5_NoCrossContamination == [] C5_Independent /\ [][C5_FailureIsolated]_vars
C5_Witness ==
  \E c, d \in Conns :
    /\ c # d /\ Returned(c) /\ Returned(d)
    /\ auth[c].localid # auth[d].localid
    /\ auth[c].remoteid # auth[d].remoteid

\* C6: get_environ returns {wsgi.url_scheme: https, HTTPS: on} for any
\* socket in any state, with no identity key, and the call changes nothing
\* else.
C6_Result ==
  environ_ret # <<>> =>
    /\ DOMAIN environ_ret[2] = {"wsgi.url_scheme", "HTTPS"}
    /\ environ_ret[2]["wsgi.url_scheme"] = "https"
    /\ environ_ret[2]["HTTPS"] = "on"
C6_Frame ==
  environ_ret' # environ_ret =>
    /\ server_name' = server_name /\ bind_ret' = bind_ret
    /\ pc' = pc /\ hdl' = hdl /\ opens' = opens /\ requests' = requests
    /\ wrap_ret' = wrap_ret /\ auth' = auth /\ err' = err
C6_EnvironDefaults == [] C6_Result /\ [][C6_Frame]_vars
C6_Witness ==
  \E c, d \in Conns :
    /\ environ_ret # <<>> /\ environ_ret[1] = ExtSock(c)
    /\ pc[c] = "raised" /\ pc[d] = "waiting"

\* C7: a bind call opens no control channel, submits no request, attaches
\* no identity, leaves the configuration alone, and returns the listening
\* socket it was given or the underlying failure.
C7_Frame ==
  bind_ret' # bind_ret =>
    /\ opens' = opens /\ requests' = requests
    /\ auth' = auth /\ hdl' = hdl
    /\ server_name' = server_name
    /\ bind_ret' \in {ListenSock, BindFailure}
C7_BindPassThrough == [][C7_Frame]_vars
C7_Witness ==
  /\ bind_ret = ListenSock
  /\ opens = 0
  /\ \A c \in Conns : pc[c] = "accepted"

\* C8: every handshake wrap started eventually leaves Negotiating.
C8_LeavesNegotiating ==
  \A c \in Conns : (State(c) = "Negotiating") ~> (State(c) # "Negotiating")

\* C9: a connection moves Accepted -> Negotiating -> {Established,
\* Rejected}; Rejected is terminal; at most one request is ever submitted
\* for a connection and none after a rejection.
C9_Transitions ==
  \A c \in Conns :
    /\ <<State(c), State(c)'>> \in
         {<<"Accepted", "Accepted">>, <<"Accepted", "Negotiating">>,
          <<"Negotiating", "Negotiating">>, <<"Negotiating", "Established">>,
          <<"Negotiating", "Rejected">>, <<"Established", "Established">>,
          <<"Rejected", "Rejected">>}
    /\ State(c) = "Rejected" => requests'[c] = requests[c]
    /\ Len(requests'[c]) <= 1
C9_SingleAttempt == [][C9_Transitions]_vars
C9_Witness ==
  \E c \in Conns :
    pc[c] = "raised" /\ err[c] = "HandshakeTimeout" /\ Len(requests[c]) = 1

\* C10: the LOCAL_USER of the returned mapping is the local identity the
\* authority reports it used, also when that differs from the requested
\* one, and the configured identity is still the requested one.
C10_ReportedLocalIdentity ==
  \A c \in Conns :
    /\ Returned(c) => Env(c)["LOCAL_USER"] = auth[c].localid
    /\ requests[c] # <<>> => requests[c][1].localid = server_name
C10_Witness ==
  \E c, d \in Conns :
    /\ Returned(c)
    /\ auth[c].localid # requests[c][1].localid
    /\ Env(c)["LOCAL_USER"] # server_name
    /\ d # c /\ requests[d] # <<>>

====
